---- MODULE Spec2Model ----
(***************************************************************************)
(* A model of eolib-rs: the EO numeric codec (data/mod.rs), the string     *)
(* cipher, the stream writer (data/eo_writer.rs), the stream reader        *)
(* (data/eo_reader.rs), the packet cipher (encrypt/) and the packet        *)
(* sequencer (packet/sequencer.rs).                                        *)
(*                                                                         *)
(* Byte sequences are TLA+ sequences, so Rust index i is TLA+ index i + 1. *)
(* Every component has its own specification; the variables of the other   *)
(* components stay at their initial value.                                 *)
(***************************************************************************)
EXTENDS Integers, Sequences, FiniteSets, TLC

VARIABLES
    overflow_checks,        \* build profile: TRUE = arithmetic overflow panics, FALSE = it wraps
    pc,                     \* position of the pure-function drivers
    number, encoded, decoded,                   \* numeric codec driver
    sbuf, sorig,                                \* string cipher driver
    pbuf, porig, swap_multiple,                 \* packet cipher driver
    writer_data, string_sanitization_mode, writer_last, writer_calls,   \* EoWriter
    data, position, chunked_reading_mode, chunk_start, next_break, reader_last,  \* EoReader
    chunk_calls,            \* next_chunk calls made so far, counted where a claim bounds them
    sequencer_start, sequencer_counter, sequencer_last, sequencer_calls,         \* Sequencer
    sequence_start, sequence_bytes, sequence_recovered      \* sequence start byte functions

vars == << overflow_checks, pc, number, encoded, decoded, sbuf, sorig,
           pbuf, porig, swap_multiple,
           writer_data, string_sanitization_mode, writer_last, writer_calls,
           data, position, chunked_reading_mode, chunk_start, next_break, reader_last,
           chunk_calls,
           sequencer_start, sequencer_counter, sequencer_last, sequencer_calls,
           sequence_start, sequence_bytes, sequence_recovered >>

codecVars == << number, encoded, decoded >>
stringVars == << sbuf, sorig >>
packetVars == << pbuf, porig, swap_multiple >>
writerVars == << writer_data, string_sanitization_mode, writer_last, writer_calls >>
readerVars == << data, position, chunked_reading_mode, chunk_start, next_break, reader_last,
                 chunk_calls >>
sequencerVars == << sequencer_start, sequencer_counter, sequencer_last, sequencer_calls >>
sequenceVars == << sequence_start, sequence_bytes, sequence_recovered >>

----------------------------------------------------------------------------
(* Constants of the numeric codec.                                         *)

CHAR_MAX == 253
SHORT_MAX == CHAR_MAX * CHAR_MAX
THREE_MAX == CHAR_MAX * CHAR_MAX * CHAR_MAX
INT_MAX == 2147483647

\* i32::MIN, the least value of the integer type of the codec
INT_MIN == -INT_MAX - 1

Min(a, b) == IF a < b THEN a ELSE b
Max(a, b) == IF a > b THEN a ELSE b

\* `x as u8`: truncation to the low eight bits
AsU8(x) == x % 256

\* `x as u8 + 1` computed in u8 without overflow checks (wraps 255 + 1 to 0)
U8Add1Wrapped(x) == (AsU8(x) + 1) % 256

\* `x as u8 + 1` overflows u8
U8Add1Overflows(x) == AsU8(x) = 255

----------------------------------------------------------------------------
(* encode_number, data/mod.rs.  The three guarded steps are kept apart so  *)
(* that each reads the number as the previous step left it.                *)

EncodeStep3(n) ==
    IF n >= THREE_MAX
    THEN [byte |-> U8Add1Wrapped(n \div THREE_MAX), rest |-> n % THREE_MAX,
          overflow |-> U8Add1Overflows(n \div THREE_MAX)]
    ELSE [byte |-> 254, rest |-> n, overflow |-> FALSE]

\* EncodeStep2 with the `number %= SHORT_MAX` forgotten
EncodeStep2KeepsNumber(original_number, n) ==
    IF original_number >= SHORT_MAX
    THEN [byte |-> U8Add1Wrapped(n \div SHORT_MAX), rest |-> n,
          overflow |-> U8Add1Overflows(n \div SHORT_MAX)]
    ELSE [byte |-> 254, rest |-> n, overflow |-> FALSE]

EncodeStep2(original_number, n) ==
    IF original_number >= SHORT_MAX
    THEN [byte |-> U8Add1Wrapped(n \div SHORT_MAX), rest |-> n % SHORT_MAX,
          overflow |-> U8Add1Overflows(n \div SHORT_MAX)]
    ELSE [byte |-> 254, rest |-> n, overflow |-> FALSE]

EncodeStep1(original_number, n) ==
    IF original_number >= CHAR_MAX
    THEN [byte |-> U8Add1Wrapped(n \div CHAR_MAX), rest |-> n % CHAR_MAX,
          overflow |-> U8Add1Overflows(n \div CHAR_MAX)]
    ELSE [byte |-> 254, rest |-> n, overflow |-> FALSE]

\* the four bytes encode_number returns when no overflow check stops it
encode_number(n) ==
    LET s3 == EncodeStep3(n)
        s2 == EncodeStep2(n, s3.rest)
        s1 == EncodeStep1(n, s2.rest)
    IN  << U8Add1Wrapped(s1.rest), s1.byte, s2.byte, s3.byte >>

\* some `as u8 + 1` of encode_number overflows: a panic when overflow checks are on
encode_number_overflows(n) ==
    LET s3 == EncodeStep3(n)
        s2 == EncodeStep2(n, s3.rest)
        s1 == EncodeStep1(n, s2.rest)
    IN  s3.overflow \/ s2.overflow \/ s1.overflow \/ U8Add1Overflows(s1.rest)

----------------------------------------------------------------------------
(* decode_number, data/mod.rs.                                             *)

\* DecodeDigit without the translation of 254 to a zero digit
DecodeDigitKeeps254(bytes, i) ==
    LET raw == IF Len(bytes) > i /\ bytes[i + 1] # 0 THEN bytes[i + 1] ELSE 254
    IN  raw - 1

\* data[i] after the loop body for Rust index i (0-based)
DecodeDigit(bytes, i) ==
    LET raw == IF Len(bytes) > i /\ bytes[i + 1] # 0 THEN bytes[i + 1] ELSE 254
        one == IF raw = 254 THEN 1 ELSE raw
    IN  one - 1

\* the sum of decode_number in 16-bit limbs: hi * 65536 + lo, exact and never
\* above 32 bits.  THREE_MAX = 247 * 65536 + 6885.
DecodeLimbs(bytes) ==
    LET d0 == DecodeDigit(bytes, 0)
        d1 == DecodeDigit(bytes, 1)
        d2 == DecodeDigit(bytes, 2)
        d3 == DecodeDigit(bytes, 3)
        low == d3 * (THREE_MAX % 65536) + d2 * SHORT_MAX + d1 * CHAR_MAX + d0
    IN  [hi |-> d3 * (THREE_MAX \div 65536) + (low \div 65536), lo |-> low % 65536]

\* the i32 additions and multiplications of decode_number overflow
decode_number_overflows(bytes) == DecodeLimbs(bytes).hi >= 32768

\* the i32 decode_number returns when no overflow check stops it (two's complement wrap)
decode_number(bytes) ==
    LET l == DecodeLimbs(bytes)
        h == l.hi % 65536
    IN  IF h >= 32768 THEN (h - 65536) * 65536 + l.lo ELSE h * 65536 + l.lo

----------------------------------------------------------------------------
(* encode_string and decode_string, data/mod.rs.                           *)

\* buf.reverse()
Reverse(s) == [i \in 1 .. Len(s) |-> s[Len(s) + 1 - i]]

\* one arm of the match on (i % 2 != parity, *c)
SubstituteByte(flipped, ch) ==
    IF flipped /\ ch >= 34 /\ ch <= 125 THEN 125 - ch + 34
    ELSE IF ~flipped /\ ch >= 34 /\ ch <= 79 THEN 79 - ch + 34
    ELSE IF ~flipped /\ ch >= 80 /\ ch <= 125 THEN 125 - ch + 80
    ELSE ch

\* the loop over buf.iter_mut().enumerate(); Rust index i is TLA+ index i + 1
SubstituteAll(buf) ==
    LET parity == (Len(buf) + 1) % 2
    IN  [j \in 1 .. Len(buf) |-> SubstituteByte(((j - 1) % 2) # parity, buf[j])]

encode_string(buf) == Reverse(SubstituteAll(buf))

\* decode_string that substitutes before it reverses, as encode_string does
decode_string_as_encode(buf) == Reverse(SubstituteAll(buf))

decode_string(buf) == SubstituteAll(Reverse(buf))

----------------------------------------------------------------------------
(* The packet cipher, encrypt/.                                            *)

\* valid_for_encryption, encrypt/mod.rs
valid_for_encryption(buf) == Len(buf) > 2 /\ ~(buf[1] = 255 /\ buf[2] = 255)

\* an inner loop that swaps nothing
SwapRunKeepsOrder(bytes, start, sequence_length) == bytes

\* the inner loop of swap_multiples: bytes.swap(start + i, end - i) for i in
\* 0..sequence_length / 2, with start and end as Rust (0-based) indices
SwapRun(bytes, start, sequence_length) ==
    LET end == start + sequence_length - 1
    IN  [j \in 1 .. Len(bytes) |->
            IF j - 1 >= start /\ j - 1 <= end THEN bytes[end - (j - 1 - start) + 1] ELSE bytes[j]]

\* the loop of swap_multiples from index i on, with the run length counted so far
RECURSIVE SwapLoop(_, _, _, _)
SwapLoop(bytes, multiple, i, sequence_length) ==
    IF i > Len(bytes) THEN bytes
    ELSE IF i # Len(bytes) /\ bytes[i + 1] % multiple = 0
         THEN SwapLoop(bytes, multiple, i + 1, sequence_length + 1)
         ELSE SwapLoop(IF sequence_length > 1
                       THEN SwapRun(bytes, i - sequence_length, sequence_length)
                       ELSE bytes,
                       multiple, i + 1, 0)

swap_multiples(bytes, multiple) == SwapLoop(bytes, multiple, 0, 0)

\* if b & 0x7f != 0 { b ^= 0x80 }
FlipHighBit(b) ==
    IF b % 128 # 0 THEN (IF b >= 128 THEN b - 128 ELSE b + 128) ELSE b

\* the two copy loops of encrypt_packet: destination (0-based) 2i takes source i,
\* destination 2i + 1 takes source length - 1 - i
Interleave(buf) ==
    LET length == Len(buf)
    IN  [j \in 1 .. length |->
            IF (j - 1) % 2 = 0
            THEN FlipHighBit(buf[((j - 1) \div 2) + 1])
            ELSE FlipHighBit(buf[length - ((j - 2) \div 2)])]

\* the two copy loops of decrypt_packet: destination i < big_half takes source 2i,
\* destination length - 1 - i takes source 2i + 1
Deinterleave(buf) ==
    LET length == Len(buf)
        big_half == (length + 1) \div 2
    IN  [j \in 1 .. length |->
            IF j - 1 < big_half
            THEN FlipHighBit(buf[2 * (j - 1) + 1])
            ELSE FlipHighBit(buf[2 * (length - j) + 2])]

encrypt_packet(buf, multiple) ==
    IF ~valid_for_encryption(buf) THEN buf
    ELSE Interleave(swap_multiples(buf, multiple))

decrypt_packet(buf, multiple) ==
    IF ~valid_for_encryption(buf) THEN buf
    ELSE swap_multiples(Deinterleave(buf), multiple)

----------------------------------------------------------------------------
(* EoWriter, data/eo_writer.rs.  Each operation is an operator from the    *)
(* accumulated data and the argument to the outcome of the call: the kind  *)
(* of the result (Ok, an EoWriterError variant, or panic), the value the   *)
(* error carries, and the bytes put on the data.                           *)

Outcome(kind, value, appended) == [kind |-> kind, value |-> value, appended |-> appended]

\* let encoded = encode_number(n)?; self.data.put_slice(&encoded[0..width]); Ok(())
\* encode_number returns the array itself, so `?` has no error to pass on
PutEncoded(n, width, checks) ==
    IF checks /\ encode_number_overflows(n)
    THEN Outcome("panic", 0, << >>)
    ELSE Outcome("Ok", 0, SubSeq(encode_number(n), 1, width))

\* add_char whose range check lets negative values through
add_char_no_lower_bound(char, checks) ==
    IF char > CHAR_MAX
    THEN Outcome("InvalidCharValue", char, << >>)
    ELSE PutEncoded(char, 1, checks)

add_char(char, checks) ==
    IF ~(char >= 0 /\ char <= CHAR_MAX)
    THEN Outcome("InvalidCharValue", char, << >>)
    ELSE PutEncoded(char, 1, checks)

add_short(short, checks) ==
    IF ~(short >= 0 /\ short <= SHORT_MAX)
    THEN Outcome("InvalidShortValue", short, << >>)
    ELSE PutEncoded(short, 2, checks)

add_three(three, checks) ==
    IF ~(three >= 0 /\ three <= THREE_MAX)
    THEN Outcome("InvalidThreeValue", three, << >>)
    ELSE PutEncoded(three, 3, checks)

add_int(int, checks) == PutEncoded(int, 4, checks)

add_byte(byte) == Outcome("Ok", 0, << byte >>)

add_bytes(bytes) == Outcome("Ok", 0, bytes)

----------------------------------------------------------------------------
(* EoReader, data/eo_reader.rs.  The operators read the reader's fields    *)
(* (the variables data, position, chunked_reading_mode, chunk_start and    *)
(* next_break) as the methods read self.                                   *)

\* next_break: Cell<Option<usize>> holds None
None == -1

\* WINDOWS_1252.decode of one byte: the code point of the character it stands for
Windows1252Char(b) ==
    IF b < 128 \/ b >= 160 THEN b
    ELSE << 8364, 129, 8218, 402, 8222, 8230, 8224, 8225, 710, 8240, 352, 8249, 338, 141, 381, 143,
            144, 8216, 8217, 8220, 8221, 8226, 8211, 8212, 732, 8482, 353, 8250, 339, 157, 382, 376
         >>[b - 127]

\* WINDOWS_1252.decode(buf): the text as the sequence of its code points
Windows1252Decode(buf) == [j \in 1 .. Len(buf) |-> Windows1252Char(buf[j])]

\* remaining() that measures to the end of the data in chunked mode too
remaining_ignoring_break ==
    Len(data) - position

remaining ==
    IF chunked_reading_mode
    THEN LET nb == IF next_break # None THEN next_break ELSE position
         IN  nb - Min(position, nb)
    ELSE Len(data) - position

\* a search that starts at the front of the buffer whatever the position
find_next_break_index_from_front(p) ==
    LET breaks == { i \in 0 .. Len(data) - 1 : data[i + 1] = 255 }
    IN  IF breaks # {} THEN CHOOSE i \in breaks : \A k \in breaks : i <= k
        ELSE Len(data)

\* find_next_break_index with self.position = p: the Rust index of the first 0xff at
\* or after p, or data.len()
find_next_break_index(p) ==
    LET breaks == { i \in p .. Len(data) - 1 : data[i + 1] = 255 }
    IN  IF breaks # {} THEN CHOOSE i \in breaks : \A k \in breaks : i <= k
        ELSE Len(data)

\* read_bytes without the clamp to remaining(): a request past the end gets no slice
read_bytes_unclamped(length) ==
    IF position + length <= Len(data)
    THEN [some |-> TRUE, buf |-> SubSeq(data, position + 1, position + length),
          position |-> position + length]
    ELSE [some |-> FALSE, buf |-> << >>, position |-> position]

\* read_bytes(length): whether data.get(..) gave a slice, the slice, and the position
\* the call leaves
read_bytes(length) ==
    LET len == Min(length, remaining)
    IN  IF position <= position + len /\ position + len <= Len(data)
        THEN [some |-> TRUE, buf |-> SubSeq(data, position + 1, position + len),
              position |-> position + len]
        ELSE [some |-> FALSE, buf |-> << >>, position |-> position]

\* what a getter hands back: the kind (Ok or panic), an integer value or a byte/text value
Got(kind, value, bytes) == [kind |-> kind, value |-> value, bytes |-> bytes]

\* Some(buf) => decode_number(buf)
DecodedValue(buf, checks) ==
    IF checks /\ decode_number_overflows(buf)
    THEN Got("panic", 0, << >>)
    ELSE Got("Ok", decode_number(buf), << >>)

\* the match of get_char / get_short / get_three / get_int on read_bytes(width)
GetNumber(width, checks) ==
    LET rb == read_bytes(width)
    IN  IF rb.some THEN DecodedValue(rb.buf, checks) ELSE Got("Ok", 0, << >>)

\* get_byte: buf[0] of the slice, which panics on an empty slice
get_byte ==
    LET rb == read_bytes(1)
    IN  IF rb.some
        THEN (IF Len(rb.buf) > 0 THEN Got("Ok", rb.buf[1], << >>) ELSE Got("panic", 0, << >>))
        ELSE Got("Ok", 0, << >>)

get_bytes(length) ==
    LET rb == read_bytes(length)
    IN  IF rb.some THEN Got("Ok", 0, rb.buf) ELSE Got("Ok", 0, << >>)

get_fixed_string(length) ==
    IF length = 0 THEN Got("Ok", 0, << >>)
    ELSE LET rb == read_bytes(length)
         IN  IF rb.some THEN Got("Ok", 0, Windows1252Decode(rb.buf)) ELSE Got("Ok", 0, << >>)

\* the position of the first 0xff in buf (0-based), or length - 1
PositionOfBreak(buf, length) ==
    LET breaks == { i \in 0 .. Len(buf) - 1 : buf[i + 1] = 255 }
    IN  IF breaks # {} THEN CHOOSE i \in breaks : \A k \in breaks : i <= k
        ELSE length - 1

\* get_fixed_encoded_string: &buf[..position_of_break] panics when the slice read is
\* shorter than position_of_break
get_fixed_encoded_string(length) ==
    IF length = 0 THEN Got("Ok", 0, << >>)
    ELSE LET rb == read_bytes(length)
         IN  IF ~rb.some THEN Got("Ok", 0, << >>)
             ELSE LET buf == decode_string(rb.buf)
                      position_of_break == PositionOfBreak(buf, length)
                  IN  IF position_of_break > Len(buf) THEN Got("panic", 0, << >>)
                      ELSE Got("Ok", 0, Windows1252Decode(SubSeq(buf, 1, position_of_break)))

\* a cursor that moves by the length asked for, whatever was read
PositionAfterReadUnclamped(length) == position + length

\* the position a getter that calls read_bytes(length) leaves; a zero-length string
\* getter returns before it calls read_bytes
PositionAfterRead(length) == read_bytes(length).position

----------------------------------------------------------------------------
(* Bounds of the checked instances.                                        *)

\* the base-253 digits tried at each position: 0..DigitSpread and the same many below 253
DigitSpread == 1

\* the longest buffer given to the string cipher
MaxStringLen == 3

\* the longest buffer given to the packet cipher
MaxPacketLen == 4

\* the number of calls made on one writer
MaxWriterCalls == 2

\* the longest buffer given to a reader, apart from the documented examples
MaxReaderLen == 3

\* next_chunk calls counted in the specification that iterates chunks
MaxChunkCalls == 6

----------------------------------------------------------------------------
(* The values the other components hold while one component runs.          *)

NoBytes == << >>
NoRead == [op |-> "none", requested |-> 0, avail |-> 0, from |-> 0,
           kind |-> "none", value |-> 0, bytes |-> << >>]
NoCall == [op |-> "none", arg |-> 0, text |-> << >>, kind |-> "none", value |-> 0,
           appended |-> << >>]

CodecIdle == number = 0 /\ encoded = NoBytes /\ decoded = 0
StringIdle == sbuf = NoBytes /\ sorig = NoBytes
PacketIdle == pbuf = NoBytes /\ porig = NoBytes /\ swap_multiple = 0
WriterIdle ==
    /\ writer_data = NoBytes /\ string_sanitization_mode = FALSE
    /\ writer_last = NoCall /\ writer_calls = 0
ReaderIdle ==
    /\ data = NoBytes /\ position = 0 /\ chunked_reading_mode = FALSE
    /\ chunk_start = 0 /\ next_break = None /\ reader_last = NoRead
    /\ chunk_calls = 0
NoSequence == [op |-> "none", value |-> 0]
SequencerIdle ==
    /\ sequencer_start = 0 /\ sequencer_counter = 0
    /\ sequencer_last = NoSequence /\ sequencer_calls = 0
SequenceIdle == sequence_start = 0 /\ sequence_bytes = NoBytes /\ sequence_recovered = 0

----------------------------------------------------------------------------
(* The numeric codec on its own: encode_number, then decode_number of the  *)
(* four bytes.                                                             *)

CodecDigits == (0 .. DigitSpread) \cup ((CHAR_MAX - 1 - DigitSpread) .. (CHAR_MAX - 1))

\* INT_MAX \div THREE_MAX = 132, so a top digit of 131 leaves room for any lower digits
TopDigits == {0, 1, (INT_MAX \div THREE_MAX) - 1}

NumberInputs ==
    { d3 * THREE_MAX + d2 * SHORT_MAX + d1 * CHAR_MAX + d0 :
        d3 \in TopDigits, d2 \in CodecDigits, d1 \in CodecDigits, d0 \in CodecDigits }
    \cup { 42, 533, 888888, 18994242,
           (INT_MAX \div THREE_MAX) * THREE_MAX - 1, (INT_MAX \div THREE_MAX) * THREE_MAX,
           INT_MAX - 1, INT_MAX }
    \cup { -1, -2, -255, -256, -257, -INT_MAX, INT_MIN }

CodecInit ==
    /\ overflow_checks \in BOOLEAN
    /\ pc = "start"
    /\ number \in NumberInputs
    /\ encoded = NoBytes /\ decoded = 0
    /\ StringIdle /\ PacketIdle /\ WriterIdle /\ ReaderIdle /\ SequencerIdle /\ SequenceIdle

\* let bytes = encode_number(number)
Encode ==
    /\ pc = "start"
    /\ IF overflow_checks /\ encode_number_overflows(number)
       THEN pc' = "panicked" /\ UNCHANGED encoded
       ELSE pc' = "encoded" /\ encoded' = encode_number(number)
    /\ UNCHANGED << overflow_checks, number, decoded, stringVars, packetVars, writerVars, readerVars, sequencerVars, sequenceVars >>

\* let value = decode_number(&bytes)
Decode ==
    /\ pc = "encoded"
    /\ IF overflow_checks /\ decode_number_overflows(encoded)
       THEN pc' = "panicked" /\ UNCHANGED decoded
       ELSE pc' = "decoded" /\ decoded' = decode_number(encoded)
    /\ UNCHANGED << overflow_checks, number, encoded, stringVars, packetVars, writerVars, readerVars, sequencerVars, sequenceVars >>

CodecNext == Encode \/ Decode

SpecCodec == CodecInit /\ [][CodecNext]_vars

\* The mixed-radix encoding of v written from its base-253 digits: digit k is
\* (v \div 253^k) % 253, a position above the highest power v reaches holds 254.
ReferenceByte(v, k) ==
    LET power == IF k = 0 THEN 1 ELSE IF k = 1 THEN CHAR_MAX ELSE IF k = 2 THEN SHORT_MAX ELSE THREE_MAX
    IN  IF k > 0 /\ v < power THEN 254
        ELSE IF k = 3 THEN (v \div power) + 1
        ELSE ((v \div power) % CHAR_MAX) + 1

ReferenceEncoding(v) == [k \in 1 .. 4 |-> ReferenceByte(v, k - 1)]

\* C1: for every v in [0, INT_MAX], encode_number(v) returns (no overflow stops it)
\* and decode_number of its four bytes is v again.
C1_DecodeEncodeIsIdentity ==
    (number >= 0 /\ number <= INT_MAX) =>
        /\ pc # "panicked"
        /\ pc = "decoded" => decoded = number

\* the round trip of INT_MAX has run
C1_Witness == pc = "decoded" /\ number = INT_MAX /\ encoded = << 167, 181, 154, 133 >>

\* C3: for every v in [0, INT_MAX], encode_number(v) is the reference mixed-radix
\* encoding of v, and the four documented examples come out as documented.
C3_EncodeIsMixedRadix ==
    (pc \in {"encoded", "decoded"} /\ number >= 0) =>
        /\ encoded = ReferenceEncoding(number)
        /\ number = 42 => encoded = << 43, 254, 254, 254 >>
        /\ number = 533 => encoded = << 28, 3, 254, 254 >>
        /\ number = 888888 => encoded = << 100, 225, 14, 254 >>
        /\ number = 18994242 => encoded = << 15, 189, 44, 2 >>

\* the four-byte example has been encoded
C3_Witness == pc = "encoded" /\ number = 18994242 /\ encoded[4] = 2

----------------------------------------------------------------------------
(* The string cipher on its own: encode_string, then decode_string.         *)

\* the ends of the three byte ranges the cipher tells apart, and bytes outside them
StringBytes == {0, 33, 34, 79, 80, 125, 126, 255}

SeqsUpTo(S, n) == UNION { [1 .. k -> S] : k \in 0 .. n }

\* b"Void"
Void == << 86, 111, 105, 100 >>

\* every buffer of one byte (odd length) and of two bytes (even length), and the
\* longer ones over StringBytes
StringInputs == SeqsUpTo(StringBytes, MaxStringLen) \cup SeqsUpTo(0 .. 255, 2) \cup { Void }

StringInit ==
    /\ overflow_checks = FALSE      \* the cipher has no arithmetic that can overflow
    /\ pc = "start"
    /\ sorig \in StringInputs
    /\ sbuf = sorig
    /\ CodecIdle /\ PacketIdle /\ WriterIdle /\ ReaderIdle /\ SequencerIdle /\ SequenceIdle

\* encode_string(&mut buf)
EncodeString ==
    /\ pc = "start"
    /\ sbuf' = encode_string(sbuf)
    /\ pc' = "encoded"
    /\ UNCHANGED << overflow_checks, sorig, codecVars, packetVars, writerVars, readerVars, sequencerVars, sequenceVars >>

\* decode_string(&mut buf)
DecodeString ==
    /\ pc = "encoded"
    /\ sbuf' = decode_string(sbuf)
    /\ pc' = "decoded"
    /\ UNCHANGED << overflow_checks, sorig, codecVars, packetVars, writerVars, readerVars, sequencerVars, sequenceVars >>

StringNext == EncodeString \/ DecodeString

SpecString == StringInit /\ [][StringNext]_vars

\* C5: encode_string followed by decode_string gives back any buffer, of even or
\* odd length and of any byte values; b"Void" encodes to 69 36 5E 49 (hex).
C5_StringRoundTrip ==
    /\ pc = "decoded" => sbuf = sorig
    /\ (pc = "encoded" /\ sorig = Void) => sbuf = << 105, 54, 94, 73 >>

\* an odd-length buffer with bytes of all three ranges has made the round trip
C5_Witness == pc = "decoded" /\ sorig = << 34, 125, 80 >> /\ sbuf = sorig

----------------------------------------------------------------------------
(* The packet cipher on its own: encrypt_packet, then decrypt_packet with   *)
(* the same swap multiple.                                                  *)

\* 0 and multiples of the swap multiples, 127 and 255 (the bytes the high-bit flip
\* turns into and out of the delimiter), and a byte no multiple divides
PacketBytes == {0, 1, 6, 12, 127, 255}

\* the swap multiples a connection can be given
SwapMultiples == 6 .. 12

\* the buffer of the documented example, "Hello, world!" behind three header bytes
HelloPacket == << 21, 18, 145, 72, 101, 108, 108, 111, 44, 32, 119, 111, 114, 108, 100, 33 >>

PacketInputs == SeqsUpTo(PacketBytes, MaxPacketLen) \cup { HelloPacket }

PacketInit ==
    /\ overflow_checks = FALSE      \* the cipher has no arithmetic that can overflow
    /\ pc = "start"
    /\ porig \in PacketInputs
    /\ pbuf = porig
    /\ swap_multiple \in SwapMultiples
    /\ CodecIdle /\ StringIdle /\ WriterIdle /\ ReaderIdle /\ SequencerIdle /\ SequenceIdle

\* encrypt_packet(&mut buf, swap_multiple)
EncryptPacket ==
    /\ pc = "start"
    /\ pbuf' = encrypt_packet(pbuf, swap_multiple)
    /\ pc' = "encrypted"
    /\ UNCHANGED << overflow_checks, porig, swap_multiple, codecVars, stringVars, writerVars, readerVars, sequencerVars, sequenceVars >>

\* decrypt_packet(&mut buf, swap_multiple)
DecryptPacket ==
    /\ pc = "encrypted"
    /\ pbuf' = decrypt_packet(pbuf, swap_multiple)
    /\ pc' = "decrypted"
    /\ UNCHANGED << overflow_checks, porig, swap_multiple, codecVars, stringVars, writerVars, readerVars, sequencerVars, sequenceVars >>

PacketNext == EncryptPacket \/ DecryptPacket

SpecPacket == PacketInit /\ [][PacketNext]_vars

\* C4: for every buffer longer than two bytes that does not start with two 0xFF
\* bytes, and every swap multiple in 6..12, decrypt_packet of encrypt_packet of the
\* buffer is the buffer.
C4_DecryptEncryptIsIdentity ==
    (pc = "decrypted" /\ valid_for_encryption(porig)) => pbuf = porig

\* the documented example encrypts as documented and decrypts to itself
PacketExampleHolds ==
    (porig = HelloPacket /\ swap_multiple = 6) =>
        /\ pc = "encrypted" =>
             pbuf = << 149, 161, 146, 228, 17, 242, 200, 236, 229, 239, 236, 247, 236, 160, 239, 172 >>
        /\ pc = "decrypted" => pbuf = porig

----------------------------------------------------------------------------
(* The stream writer: a sequence of add_* calls on one EoWriter.  A call    *)
(* that panics ends the run of that writer.                                 *)

\* the ends of each width's accepted range, their neighbours, and negative values
WriterValues ==
    { -1, -2, -256, -257, -INT_MAX, INT_MIN, 0, 1, 42,
      CHAR_MAX - 1, CHAR_MAX, CHAR_MAX + 1,
      SHORT_MAX - 1, SHORT_MAX, SHORT_MAX + 1,
      THREE_MAX - 1, THREE_MAX, THREE_MAX + 1,
      INT_MAX }

WriterBytes == {0, 1, 254, 255}

WriterInit ==
    /\ overflow_checks \in BOOLEAN
    /\ pc = "writer"
    /\ writer_data = NoBytes
    /\ string_sanitization_mode = FALSE
    /\ writer_last = NoCall
    /\ writer_calls = 0
    /\ CodecIdle /\ StringIdle /\ PacketIdle /\ ReaderIdle /\ SequencerIdle /\ SequenceIdle

WriterReady == pc = "writer" /\ writer_calls < MaxWriterCalls /\ writer_last.kind # "panic"

\* the effect of one call on the writer; text is the string argument of the call
WriterTextCall(op, arg, text, outcome) ==
    /\ WriterReady
    /\ writer_data' = writer_data \o outcome.appended
    /\ writer_last' = [op |-> op, arg |-> arg, text |-> text, kind |-> outcome.kind,
                       value |-> outcome.value, appended |-> outcome.appended]
    /\ writer_calls' = writer_calls + 1
    /\ UNCHANGED << overflow_checks, pc, string_sanitization_mode,
                    codecVars, stringVars, packetVars, readerVars, sequencerVars, sequenceVars >>

WriterCall(op, arg, outcome) == WriterTextCall(op, arg, << >>, outcome)

AddByte == \E b \in WriterBytes : WriterCall("add_byte", b, add_byte(b))

AddBytes == \E bs \in SeqsUpTo(WriterBytes, 2) : WriterCall("add_bytes", Len(bs), add_bytes(bs))

AddChar == \E v \in WriterValues : WriterCall("add_char", v, add_char(v, overflow_checks))

AddShort == \E v \in WriterValues : WriterCall("add_short", v, add_short(v, overflow_checks))

AddThree == \E v \in WriterValues : WriterCall("add_three", v, add_three(v, overflow_checks))

AddInt == \E v \in WriterValues : WriterCall("add_int", v, add_int(v, overflow_checks))

\* the decimal digits of n as ASCII bytes
RECURSIVE DecimalDigits(_)
DecimalDigits(n) ==
    IF n < 10 THEN << 48 + n >> ELSE DecimalDigits(n \div 10) \o << 48 + (n % 10) >>

\* WINDOWS_1252.encode of one character: its byte, or for a character the code page
\* lacks the numeric character reference &#N;
Windows1252EncodeChar(c) ==
    IF c < 128 \/ (c >= 160 /\ c <= 255) THEN << c >>
    ELSE LET bytes == { b \in 128 .. 159 : Windows1252Char(b) = c }
         IN  IF bytes # {} THEN << CHOOSE b \in bytes : TRUE >>
             ELSE << 38, 35 >> \o DecimalDigits(c) \o << 59 >>

\* WINDOWS_1252.encode(&string): the string is the sequence of its code points
RECURSIVE Windows1252Encode(_)
Windows1252Encode(string) ==
    IF string = << >> THEN << >>
    ELSE Windows1252EncodeChar(Head(string)) \o Windows1252Encode(Tail(string))

\* a sanitizer that never replaces anything
sanitize_string_never(string, mode) == string

\* sanitize_string: c as i32 == 0xff becomes 0x79 as char while the mode is on
sanitize_string(string, mode) ==
    IF mode
    THEN [j \in 1 .. Len(string) |-> IF string[j] = 255 THEN 121 ELSE string[j]]
    ELSE string

add_string(string, mode) ==
    Outcome("Ok", 0, Windows1252Encode(sanitize_string(string, mode)))

add_encoded_string(string, mode) ==
    Outcome("Ok", 0, encode_string(Windows1252Encode(sanitize_string(string, mode))))

\* characters of the strings written: A, y-diaeresis (0xFF) and the euro sign, which
\* windows-1252 holds at byte 0x80
WriterChars == { 65, 255, 8364 }

\* a string with A-macron, which windows-1252 lacks
UnmappableText == << 256 >>

WriterTexts == SeqsUpTo(WriterChars, 2) \cup { UnmappableText }

AddString ==
    \E string \in WriterTexts :
        WriterTextCall("add_string", Len(string), string,
                       add_string(string, string_sanitization_mode))

AddEncodedString ==
    \E string \in WriterTexts :
        WriterTextCall("add_encoded_string", Len(string), string,
                       add_encoded_string(string, string_sanitization_mode))

\* set_string_sanitization_mode(mode)
SetStringSanitizationMode ==
    \E mode \in BOOLEAN :
        /\ WriterReady
        /\ string_sanitization_mode' = mode
        /\ writer_last' = [op |-> "set_string_sanitization_mode", arg |-> IF mode THEN 1 ELSE 0,
                           text |-> << >>, kind |-> "Ok", value |-> 0, appended |-> << >>]
        /\ writer_calls' = writer_calls + 1
        /\ UNCHANGED << overflow_checks, pc, writer_data,
                        codecVars, stringVars, packetVars, readerVars, sequencerVars,
                        sequenceVars >>

\* get_string_sanitization_mode()
GetStringSanitizationMode ==
    /\ WriterReady
    /\ writer_last' = [op |-> "get_string_sanitization_mode", arg |-> 0, text |-> << >>,
                       kind |-> "Ok", value |-> IF string_sanitization_mode THEN 1 ELSE 0,
                       appended |-> << >>]
    /\ writer_calls' = writer_calls + 1
    /\ UNCHANGED << overflow_checks, pc, writer_data, string_sanitization_mode,
                    codecVars, stringVars, packetVars, readerVars, sequencerVars,
                    sequenceVars >>

WriterNext ==
    \/ AddByte \/ AddBytes \/ AddChar \/ AddShort \/ AddThree \/ AddInt
    \/ AddString \/ AddEncodedString
    \/ SetStringSanitizationMode \/ GetStringSanitizationMode

SpecWriter == WriterInit /\ [][WriterNext]_vars

NarrowWidth(op) == IF op = "add_char" THEN 1 ELSE IF op = "add_short" THEN 2 ELSE 3

NarrowMax(op) == IF op = "add_char" THEN CHAR_MAX ELSE IF op = "add_short" THEN SHORT_MAX ELSE THREE_MAX

NarrowError(op) ==
    IF op = "add_char" THEN "InvalidCharValue"
    ELSE IF op = "add_short" THEN "InvalidShortValue" ELSE "InvalidThreeValue"

NarrowOps == {"add_char", "add_short", "add_three"}

\* C2: for each narrow width and every value the writer accepts for it, 0 and the
\* width's MAX included, decode_number of the bytes add_char / add_short / add_three
\* appended (what get_char / get_short / get_three compute from them) is the value.
C2_NarrowRoundTrip ==
    (writer_last.op \in NarrowOps /\ writer_last.kind = "Ok") =>
        /\ Len(writer_last.appended) = NarrowWidth(writer_last.op)
        /\ decode_number(writer_last.appended) = writer_last.arg

\* C9: add_char, add_short and add_three called with a value below 0 or above the
\* width's MAX return the width's error carrying the value, and the call leaves the
\* accumulated buffer as it was.
C9_NarrowRangeErrors ==
    [][ (writer_calls' = writer_calls + 1
         /\ writer_last'.op \in NarrowOps
         /\ (writer_last'.arg < 0 \/ writer_last'.arg > NarrowMax(writer_last'.op)))
        => (/\ writer_last'.kind = NarrowError(writer_last'.op)
            /\ writer_last'.value = writer_last'.arg
            /\ writer_data' = writer_data) ]_vars

\* a rejected add_short(SHORT_MAX + 1) after bytes were already accumulated
C9_Witness ==
    /\ writer_last.op = "add_short" /\ writer_last.arg = SHORT_MAX + 1
    /\ writer_last.kind = "InvalidShortValue" /\ writer_last.value = SHORT_MAX + 1
    /\ Len(writer_data) > 0

\* C10: add_int called with a value below 0 reports an invalid-value error and
\* appends nothing.
C10_NegativeIntRejected ==
    (writer_last.op = "add_int" /\ writer_last.arg < 0) =>
        /\ writer_last.kind = "InvalidIntValue"
        /\ writer_last.appended = << >>

----------------------------------------------------------------------------
(* The stream reader: any sequence of calls on one EoReader over a fixed    *)
(* buffer.  reader_last records the last call: the operation, the length it *)
(* asked read_bytes for, remaining() and position before the call, and what *)
(* it returned.  A call that panics ends the run of that reader.            *)

\* a digit byte, the byte decode_number treats as absent, a byte WINDOWS_1252 maps
\* away from its own value, and the chunk delimiter
ReaderBytes == {0, 43, 128, 255}

\* the buffers of the two documented examples
LinearExample == << 1, 43, 11, 254 >>
ChunkedExample == << 43, 255, 72, 101, 108, 108, 111, 255, 2 >>

\* four bytes whose decode_number exceeds i32
OverflowExample == << 255, 255, 255, 255 >>

ReaderInputs ==
    SeqsUpTo(ReaderBytes, MaxReaderLen) \cup { LinearExample, ChunkedExample, OverflowExample }

\* the lengths given to get_bytes, get_fixed_string and get_fixed_encoded_string
ReaderLengths == 0 .. MaxReaderLen + 1

ReaderInit ==
    /\ overflow_checks \in BOOLEAN
    /\ pc = "reader"
    /\ data \in ReaderInputs
    /\ position = 0
    /\ chunked_reading_mode = FALSE
    /\ chunk_start = 0
    /\ next_break = None
    /\ reader_last = NoRead
    /\ chunk_calls = 0
    /\ CodecIdle /\ StringIdle /\ PacketIdle /\ WriterIdle /\ SequencerIdle /\ SequenceIdle

ReaderReady == pc = "reader" /\ reader_last.kind # "panic"

ReadRecord(op, requested, got) ==
    [op |-> op, requested |-> requested, avail |-> remaining, from |-> position,
     kind |-> got.kind, value |-> got.value, bytes |-> got.bytes]

\* a getter: the cursor moves to where read_bytes left it, nothing else changes
Getter(op, requested, newPosition, got) ==
    /\ ReaderReady
    /\ position' = newPosition
    /\ reader_last' = ReadRecord(op, requested, got)
    /\ UNCHANGED << overflow_checks, pc, data, chunked_reading_mode, chunk_start, next_break,
                    chunk_calls, codecVars, stringVars, packetVars, writerVars, sequencerVars, sequenceVars >>

GetByte == Getter("get_byte", 1, PositionAfterRead(1), get_byte)

GetChar == Getter("get_char", 1, PositionAfterRead(1), GetNumber(1, overflow_checks))

GetShort == Getter("get_short", 2, PositionAfterRead(2), GetNumber(2, overflow_checks))

GetThree == Getter("get_three", 3, PositionAfterRead(3), GetNumber(3, overflow_checks))

GetInt == Getter("get_int", 4, PositionAfterRead(4), GetNumber(4, overflow_checks))

GetBytes == \E n \in ReaderLengths : Getter("get_bytes", n, PositionAfterRead(n), get_bytes(n))

GetFixedString ==
    \E n \in ReaderLengths :
        Getter("get_fixed_string", n, IF n = 0 THEN position ELSE PositionAfterRead(n),
               get_fixed_string(n))

\* get_string: get_fixed_string(self.remaining())
GetString ==
    Getter("get_string", remaining, IF remaining = 0 THEN position ELSE PositionAfterRead(remaining),
           get_fixed_string(remaining))

GetFixedEncodedString ==
    \E n \in ReaderLengths :
        Getter("get_fixed_encoded_string", n, IF n = 0 THEN position ELSE PositionAfterRead(n),
               get_fixed_encoded_string(n))

\* get_encoded_string: get_fixed_encoded_string(self.remaining())
GetEncodedString ==
    Getter("get_encoded_string", remaining,
           IF remaining = 0 THEN position ELSE PositionAfterRead(remaining),
           get_fixed_encoded_string(remaining))

\* a set_chunked_reading_mode that never looks for the next break
SetChunkedReadingModeOnly ==
    \E enabled \in BOOLEAN :
        /\ ReaderReady
        /\ chunked_reading_mode' = enabled
        /\ reader_last' = ReadRecord("set_chunked_reading_mode", IF enabled THEN 1 ELSE 0,
                                     Got("Ok", 0, << >>))
        /\ UNCHANGED << overflow_checks, pc, data, position, chunk_start, next_break,
                        chunk_calls, codecVars, stringVars, packetVars, writerVars,
                        sequencerVars, sequenceVars >>

\* set_chunked_reading_mode(enabled)
SetChunkedReadingMode ==
    \E enabled \in BOOLEAN :
        /\ ReaderReady
        /\ chunked_reading_mode' = enabled
        /\ next_break' = IF next_break = None THEN find_next_break_index(position) ELSE next_break
        /\ reader_last' = ReadRecord("set_chunked_reading_mode", IF enabled THEN 1 ELSE 0,
                                     Got("Ok", 0, << >>))
        /\ UNCHANGED << overflow_checks, pc, data, position, chunk_start, chunk_calls,
                        codecVars, stringVars, packetVars, writerVars, sequencerVars, sequenceVars >>

\* next_chunk(): what the call does to the reader
NextChunkEffect ==
    /\ ReaderReady
    /\ IF ~chunked_reading_mode
       THEN /\ reader_last' = ReadRecord("next_chunk", 0, Got("ChunkedReadingDisabled", 0, << >>))
            /\ UNCHANGED << position, chunk_start, next_break >>
       ELSE LET nb == IF next_break # None THEN next_break ELSE position
                newPosition == IF nb < Len(data) THEN nb + 1 ELSE nb
            IN  /\ chunk_start' = nb
                /\ position' = newPosition
                /\ next_break' = find_next_break_index(newPosition)
                /\ reader_last' = ReadRecord("next_chunk", 0, Got("Ok", 0, << >>))
    /\ UNCHANGED << overflow_checks, pc, data, chunked_reading_mode,
                    codecVars, stringVars, packetVars, writerVars, sequencerVars, sequenceVars >>

\* next_chunk()
NextChunk == NextChunkEffect /\ UNCHANGED chunk_calls

ReaderNext ==
    \/ GetByte \/ GetChar \/ GetShort \/ GetThree \/ GetInt \/ GetBytes
    \/ GetFixedString \/ GetString \/ GetFixedEncodedString \/ GetEncodedString
    \/ SetChunkedReadingMode \/ NextChunk

SpecReader == ReaderInit /\ [][ReaderNext]_vars

NumberGetters == {"get_char", "get_short", "get_three", "get_int"}
PrimitiveGetters == NumberGetters \cup {"get_byte"}
LengthGetters == {"get_bytes", "get_fixed_string", "get_fixed_encoded_string"}

\* the bytes between the position before the last call and the position after it
Consumed == SubSeq(data, reader_last.from + 1, position)

\* the last call was a getter that asked for more bytes than remaining() reported
ShortRead ==
    /\ reader_last.op \in PrimitiveGetters \cup LengthGetters
    /\ reader_last.requested > reader_last.avail

C7_ChunkedGetterStaysInChunk ==
    /\ (chunked_reading_mode /\ reader_last.op \in PrimitiveGetters) =>
          LET r == reader_last
          IN  /\ position = r.from + Min(r.requested, r.avail)
              /\ (r.from <= next_break => position <= next_break)
              /\ (r.from > next_break => position = r.from)
              /\ \A j \in 1 .. Len(Consumed) : Consumed[j] # 255
              /\ (r.op \in NumberGetters /\ r.kind = "Ok") => r.value = decode_number(Consumed)
              /\ (r.op = "get_byte" /\ r.kind = "Ok") => Consumed = << r.value >>
    /\ (chunked_reading_mode /\ data = ChunkedExample /\ reader_last.kind = "Ok") =>
          LET r == reader_last
          IN  /\ (r.op = "get_int" /\ r.from = 0) => (r.value = 42 /\ position = 1)
              /\ (r.op = "get_string" /\ r.from = 2 /\ chunk_start = 1) =>
                    (r.bytes = << 72, 101, 108, 108, 111 >> /\ position = 7)
              /\ (r.op = "get_int" /\ r.from = 8 /\ chunk_start = 7) =>
                    (r.value = 1 /\ position = 9)

\* get_int in the last chunk of the documented buffer, reached through next_chunk
C7_Witness ==
    /\ chunked_reading_mode /\ data = ChunkedExample /\ chunk_start = 7
    /\ reader_last.op = "get_int" /\ reader_last.from = 8 /\ reader_last.value = 1

\* C8: after any calls, set_chunked_reading_mode(true) leaves next_break at the first
\* 0xFF at or after the current position, or at the length of the buffer.
C8_EnableFindsNextBreak ==
    (reader_last.op = "set_chunked_reading_mode" /\ reader_last.requested = 1) =>
        next_break = find_next_break_index(position)


----------------------------------------------------------------------------
(* The Sequencer (packet/sequencer.rs): a start value and a counter that   *)
(* cycles through 0..9.                                                     *)

\* a counter that wraps one step early
next_counter_mod_nine(counter) == (counter + 1) % 9

\* next_sequence: self.counter = (self.counter + 1) % 10
next_counter(counter) == (counter + 1) % 10

\* next_sequence: self.start + self.counter, with the counter already advanced
next_sequence(start, counter) == start + next_counter(counter)

MaxSequenceCalls == 12

\* starts the sequence start functions produce: s1 * 7 + s2 - 13 and s1 - s2 of two
\* chars lie in -252 .. 2003, and generate_sequence_start draws from 0 .. CHAR_MAX - 10
SequenceStarts == { -252, -13, 0, 100, CHAR_MAX - 10, 2003 }

\* Sequencer::new(start)
SequencerInit ==
    /\ overflow_checks \in BOOLEAN
    /\ pc = "sequencer"
    /\ sequencer_start \in SequenceStarts
    /\ sequencer_counter = 0
    /\ sequencer_last = [op |-> "new", value |-> 0]
    /\ sequencer_calls = 0
    /\ sequence_start = 0 /\ sequence_bytes = NoBytes /\ sequence_recovered = 0
    /\ CodecIdle /\ StringIdle /\ PacketIdle /\ WriterIdle /\ ReaderIdle

\* next_sequence()
NextSequence ==
    /\ pc = "sequencer"
    /\ sequencer_calls < MaxSequenceCalls
    /\ sequencer_counter' = next_counter(sequencer_counter)
    /\ sequencer_last' = [op |-> "next_sequence",
                          value |-> next_sequence(sequencer_start, sequencer_counter)]
    /\ sequencer_calls' = sequencer_calls + 1
    /\ UNCHANGED << overflow_checks, pc, sequencer_start,
                    codecVars, stringVars, packetVars, writerVars, readerVars, sequenceVars >>

\* set_start(start)
SetStart ==
    \E start \in SequenceStarts :
        /\ pc = "sequencer"
        /\ sequencer_start' = start
        /\ sequencer_last' = [op |-> "set_start", value |-> 0]
        /\ UNCHANGED << overflow_checks, pc, sequencer_counter, sequencer_calls,
                        codecVars, stringVars, packetVars, writerVars, readerVars, sequenceVars >>

\* get_start()
GetStart ==
    /\ pc = "sequencer"
    /\ sequencer_last' = [op |-> "get_start", value |-> sequencer_start]
    /\ UNCHANGED << overflow_checks, pc, sequencer_start, sequencer_counter, sequencer_calls,
                    codecVars, stringVars, packetVars, writerVars, readerVars, sequenceVars >>

SequencerNext == NextSequence \/ SetStart \/ GetStart

SpecSequencer == SequencerInit /\ [][SequencerNext]_vars

\* C11: after k calls of next_sequence, interleaved in any way with set_start and
\* get_start, the counter is k mod 10 (so it stays in 0..9, wraps from 9 to 0 and is
\* moved by next_sequence alone), and the k-th call returned the start of that moment
\* plus k mod 10.
C11_NextSequenceCycles ==
    /\ sequencer_counter \in 0 .. 9
    /\ sequencer_counter = sequencer_calls % 10
    /\ sequencer_last.op = "next_sequence"
          => sequencer_last.value = sequencer_start + (sequencer_calls % 10)
    /\ sequencer_last.op = "get_start" => sequencer_last.value = sequencer_start

\* the eleventh call on a sequencer whose start is 100 returns 101 again
C11_Witness ==
    /\ sequencer_start = 100 /\ sequencer_calls = 11
    /\ sequencer_last.op = "next_sequence" /\ sequencer_last.value = 101


----------------------------------------------------------------------------
(* The sequence start functions (packet/sequencer.rs): the server hides a  *)
(* start value in two numbers, the client recovers it.  The random draw of *)
(* rng.gen_range is a choice over the whole range.                         *)

\* Rust's i32 division truncates toward zero
TruncDiv(a, b) == IF a >= 0 THEN a \div b ELSE -((-a) \div b)

\* a lower bound that rounds down instead of up
Seq1MinRoundedDown(start) == Max(0, TruncDiv(start - (CHAR_MAX - 1) + 13, 7))

\* seq1_min = cmp::max(0, (start - (CHAR_MAX - 1) + 13 + 6) / 7)
Seq1Min(start) == Max(0, TruncDiv(start - (CHAR_MAX - 1) + 13 + 6, 7))

\* seq1_max = (start + 13) / 7
Seq1Max(start) == TruncDiv(start + 13, 7)

\* what rng.gen_range(0..=seq1_max - seq1_min) can return; gen_range panics if it is empty
InitRandomRange(start) == 0 .. (Seq1Max(start) - Seq1Min(start))

get_init_sequence_bytes(start, random) ==
    LET seq1 == random + Seq1Min(start)
        seq2 == start - seq1 * 7 + 13
    IN  << seq1, seq2 >>

\* a recovery that forgets the offset
get_init_sequence_start_without_offset(s1, s2) == s1 * 7 + s2

get_init_sequence_start(s1, s2) == s1 * 7 + s2 - 13

\* what rng.gen_range(seq1_min..=seq1_max) can return
PingRandomRange(start) == start .. (start + 252)

get_ping_sequence_bytes(start, random) ==
    LET seq1 == random
        seq2 == seq1 - start
    IN  << seq1, seq2 >>

get_ping_sequence_start(s1, s2) == s1 - s2

\* generate_sequence_start: rng.gen_range(0..=CHAR_MAX - 10)
generate_sequence_start == 0 .. (CHAR_MAX - 10)

SequenceInit ==
    /\ overflow_checks \in BOOLEAN
    /\ pc = "start"
    /\ sequence_start \in generate_sequence_start
    /\ sequence_bytes = NoBytes
    /\ sequence_recovered = 0
    /\ CodecIdle /\ StringIdle /\ PacketIdle /\ WriterIdle /\ ReaderIdle /\ SequencerIdle

GetInitSequenceBytes ==
    LET range == InitRandomRange(sequence_start)
    IN  /\ pc = "start"
        /\ \E random \in (IF range = {} THEN {0} ELSE range) :
               sequence_bytes' = IF range = {} THEN NoBytes
                                 ELSE get_init_sequence_bytes(sequence_start, random)
        /\ pc' = IF range = {} THEN "panicked" ELSE "init_bytes"
        /\ UNCHANGED << overflow_checks, sequence_start, sequence_recovered,
                        codecVars, stringVars, packetVars, writerVars, readerVars,
                        sequencerVars >>

GetInitSequenceStart ==
    /\ pc = "init_bytes"
    /\ sequence_recovered' = get_init_sequence_start(sequence_bytes[1], sequence_bytes[2])
    /\ pc' = "init_start"
    /\ UNCHANGED << overflow_checks, sequence_start, sequence_bytes,
                    codecVars, stringVars, packetVars, writerVars, readerVars, sequencerVars >>

GetPingSequenceBytes ==
    /\ pc = "start"
    /\ \E random \in PingRandomRange(sequence_start) :
           sequence_bytes' = get_ping_sequence_bytes(sequence_start, random)
    /\ pc' = "ping_bytes"
    /\ UNCHANGED << overflow_checks, sequence_start, sequence_recovered,
                    codecVars, stringVars, packetVars, writerVars, readerVars, sequencerVars >>

GetPingSequenceStart ==
    /\ pc = "ping_bytes"
    /\ sequence_recovered' = get_ping_sequence_start(sequence_bytes[1], sequence_bytes[2])
    /\ pc' = "ping_start"
    /\ UNCHANGED << overflow_checks, sequence_start, sequence_bytes,
                    codecVars, stringVars, packetVars, writerVars, readerVars, sequencerVars >>

SequenceNext ==
    \/ GetInitSequenceBytes \/ GetInitSequenceStart
    \/ GetPingSequenceBytes \/ GetPingSequenceStart

SpecSequence == SequenceInit /\ [][SequenceNext]_vars

\* C12: for every start in 0 .. CHAR_MAX - 10 and every random draw,
\* get_init_sequence_start of the init sequence bytes is the start, and
\* get_ping_sequence_start of the ping sequence bytes is the start.
C12_SequenceStartRoundTrip ==
    /\ pc = "init_start" => sequence_recovered = sequence_start
    /\ pc = "ping_start" => sequence_recovered = sequence_start

\* start 243 hidden as (1, 249) and recovered
C12_Witness ==
    /\ pc = "init_start" /\ sequence_start = CHAR_MAX - 10
    /\ sequence_bytes = << 1, 249 >> /\ sequence_recovered = CHAR_MAX - 10

\* C17: for every start in 0 .. CHAR_MAX - 10 and every random draw, both init sequence
\* bytes lie in 0 .. CHAR_MAX - 1, and the range the first is drawn from is not empty.
C17_InitBytesAreChars ==
    /\ pc # "panicked"
    /\ pc = "start" => InitRandomRange(sequence_start) # {}
    /\ pc = "init_bytes" =>
          /\ sequence_bytes[1] \in 0 .. (CHAR_MAX - 1)
          /\ sequence_bytes[2] \in 0 .. (CHAR_MAX - 1)

\* start 239 with the smallest first byte: the second byte is the largest char
C17_Witness ==
    pc = "init_bytes" /\ sequence_start = 239 /\ sequence_bytes = << 0, CHAR_MAX - 1 >>


----------------------------------------------------------------------------
\* C13 as stated: get_fixed_encoded_string(n) with 0 < n <= remaining(), over raw bytes
\* none of which is 0xFF, consumes n bytes and returns the text of all n bytes after
\* decode_string.
C13_EncodedStringIsWhole ==
    ( /\ reader_last.op = "get_fixed_encoded_string"
      /\ 0 < reader_last.requested /\ reader_last.requested <= reader_last.avail
      /\ \A j \in 1 .. Len(Consumed) : Consumed[j] # 255 )
    => /\ reader_last.kind = "Ok"
       /\ position = reader_last.from + reader_last.requested
       /\ reader_last.bytes = Windows1252Decode(decode_string(Consumed))


----------------------------------------------------------------------------
\* C14: while string_sanitization_mode is on, add_string and add_encoded_string write
\* the encoding of the string with every character 0xFF replaced by 0x79, and the bytes
\* they append hold no 0xFF; while it is off they write the encoding of the string as
\* given.
C14_SanitizedStringsHoldNoBreak ==
    writer_last.op \in {"add_string", "add_encoded_string"} =>
        LET text == writer_last.text
            written == IF string_sanitization_mode
                       THEN [j \in 1 .. Len(text) |-> IF text[j] = 255 THEN 121 ELSE text[j]]
                       ELSE text
            bytes == Windows1252Encode(written)
        IN  /\ writer_last.kind = "Ok"
            /\ writer_last.appended = IF writer_last.op = "add_string" THEN bytes
                                      ELSE encode_string(bytes)
            /\ string_sanitization_mode =>
                   \A j \in 1 .. Len(writer_last.appended) : writer_last.appended[j] # 255

\* with the mode on, add_string of A followed by 0xFF wrote A followed by 0x79
C14_Witness ==
    /\ string_sanitization_mode
    /\ writer_last.op = "add_string"
    /\ writer_last.text = << 65, 255 >>
    /\ writer_last.appended = << 65, 121 >>


----------------------------------------------------------------------------
(* swap_multiples on its own (encrypt/swap_multiples.rs), applied once and *)
(* then once more with the same multiple.                                  *)

\* the multiples swap_multiples is called with: 1 divides every byte, 255 divides 0 and 255
SwapOnlyMultiples == { 1, 3, 6, 12, 255 }

\* the buffer of the documented example
SwapExample == << 10, 21, 27 >>

SwapInputs == SeqsUpTo(PacketBytes, MaxPacketLen) \cup { SwapExample }

SwapInit ==
    /\ overflow_checks = FALSE      \* swap_multiples has no arithmetic that can overflow
    /\ pc = "swap_start"
    /\ porig \in SwapInputs
    /\ pbuf = porig
    /\ swap_multiple \in SwapOnlyMultiples
    /\ CodecIdle /\ StringIdle /\ WriterIdle /\ ReaderIdle /\ SequencerIdle /\ SequenceIdle

\* swap_multiples(&mut bytes, multiple)
SwapOnce ==
    /\ pc = "swap_start"
    /\ pbuf' = swap_multiples(pbuf, swap_multiple)
    /\ pc' = "swapped"
    /\ UNCHANGED << overflow_checks, porig, swap_multiple, codecVars, stringVars, writerVars,
                    readerVars, sequencerVars, sequenceVars >>

\* swap_multiples(&mut bytes, multiple) on the result
SwapAgain ==
    /\ pc = "swapped"
    /\ pbuf' = swap_multiples(pbuf, swap_multiple)
    /\ pc' = "swapped_twice"
    /\ UNCHANGED << overflow_checks, porig, swap_multiple, codecVars, stringVars, writerVars,
                    readerVars, sequencerVars, sequenceVars >>

SwapNext == SwapOnce \/ SwapAgain

SpecSwap == SwapInit /\ [][SwapNext]_vars

\* the maximal run of bytes divisible by m around index j, as its first and last index
RunFirst(bytes, m, j) ==
    CHOOSE a \in 1 .. j :
        /\ \A k \in a .. j : bytes[k] % m = 0
        /\ a = 1 \/ bytes[a - 1] % m # 0
RunLast(bytes, m, j) ==
    CHOOSE b \in j .. Len(bytes) :
        /\ \A k \in j .. b : bytes[k] % m = 0
        /\ b = Len(bytes) \/ bytes[b + 1] % m # 0

\* bytes with every maximal run of bytes divisible by m reversed
RunsReversed(bytes, m) ==
    [j \in 1 .. Len(bytes) |->
        IF bytes[j] % m = 0
        THEN bytes[RunFirst(bytes, m, j) + RunLast(bytes, m, j) - j]
        ELSE bytes[j]]

\* how often byte v occurs in bytes
Occurrences(bytes, v) == Cardinality({ j \in 1 .. Len(bytes) : bytes[j] = v })

\* C15: swap_multiples(bytes, m) with m >= 1 reverses every maximal run of bytes
\* divisible by m and leaves every other byte in place; it keeps the length and the
\* number of occurrences of every byte; applied twice with the same m it restores the
\* input; and it turns [10, 21, 27] with m = 3 into [10, 27, 21].
C15_SwapReversesRuns ==
    /\ pc = "swapped" =>
          /\ pbuf = RunsReversed(porig, swap_multiple)
          /\ Len(pbuf) = Len(porig)
          /\ \A v \in 0 .. 255 : Occurrences(pbuf, v) = Occurrences(porig, v)
          /\ (porig = SwapExample /\ swap_multiple = 3) => pbuf = << 10, 27, 21 >>
    /\ pc = "swapped_twice" => pbuf = porig

\* a run of three multiples of 6 behind a byte that is not one, reversed
C15_Witness ==
    /\ pc = "swapped" /\ swap_multiple = 6
    /\ porig = << 1, 0, 6, 12 >> /\ pbuf = << 1, 12, 6, 0 >>


----------------------------------------------------------------------------
\* C16: in every state any sequence of getters, set_chunked_reading_mode and next_chunk
\* calls reaches, position <= data.len(), and chunk_start <= position while chunked
\* reading mode is on.
C16_CursorInBounds ==
    /\ position <= Len(data)
    /\ chunked_reading_mode => chunk_start <= position

\* a next_chunk that moved the cursor back to a break found earlier
C16_Witness ==
    /\ chunked_reading_mode /\ reader_last.op = "next_chunk" /\ reader_last.kind = "Ok"
    /\ position < reader_last.from /\ chunk_start < position

\* C18: chunked reading mode on implies next_break is present, so remaining() and
\* next_chunk() never fall back to position for an absent next_break.
C18_ChunkedHasNextBreak == chunked_reading_mode => next_break # None

\* chunked mode was switched on off a break, and a next_chunk then ran with the break set
C18_Witness ==
    /\ chunked_reading_mode /\ next_break # None
    /\ reader_last.op = "next_chunk" /\ reader_last.kind = "Ok" /\ position > 0


----------------------------------------------------------------------------
(* Iterating chunks: a reader whose chunked reading mode is switched on    *)
(* once, by the only set_chunked_reading_mode call of the run, with        *)
(* getters and next_chunk calls in any order before and after.             *)

\* set_chunked_reading_mode(true), no set_chunked_reading_mode call having been made:
\* next_break is None exactly until the first such call
EnableChunkedReadingOnce ==
    /\ next_break = None
    /\ SetChunkedReadingMode
    /\ chunked_reading_mode' = TRUE

\* next_chunk(), counted while chunked reading mode is on
CountedNextChunk ==
    /\ chunk_calls < MaxChunkCalls
    /\ NextChunkEffect
    /\ chunk_calls' = IF chunked_reading_mode THEN chunk_calls + 1 ELSE chunk_calls

ChunksNext ==
    \/ GetByte \/ GetChar \/ GetShort \/ GetThree \/ GetInt \/ GetBytes
    \/ GetFixedString \/ GetString \/ GetFixedEncodedString \/ GetEncodedString
    \/ EnableChunkedReadingOnce \/ CountedNextChunk

SpecChunks == ReaderInit /\ [][ChunksNext]_vars

\* the number of 0xFF bytes in the buffer
BreakCount == Cardinality({ j \in 1 .. Len(data) : data[j] = 255 })

====
